---- MODULE Spec2Model ----
(***************************************************************************)
(* bris.kr URL shortener (src/app.py): the briskr.urls table, the code     *)
(* allocator (create_short_url / find_available_code), the redirect        *)
(* resolver (redirect_url / get_long_url) and the two creation routes,     *)
(* run as concurrent requests against one shared PostgreSQL table.         *)
(* Every SQL statement of a handler is one atomic step; statements of      *)
(* different requests interleave freely.                                   *)
(* Strings are sequences of one-character strings.                         *)
(***************************************************************************)
EXTENDS Integers, Sequences, FiniteSets, TLC

(***************************************************************************)
(* Bounds of the model                                                     *)
(***************************************************************************)
\* number of requests of one behaviour; they may all run concurrently
MaxRequests == 2
\* how many symbols of the generator's alphabet the last character of a
\* candidate is drawn from
NChars == 2
\* the longest code asked of the generator on its own
MaxGenLength == 2
\* how many rows beyond LISTING_LIMIT the largest listed table holds
MaxExtraRows == 2
\* how many versions beyond VERSION_MAX the service may hold at the start
MaxExtraVersions == 1
\* how many times the deployment script is run
MaxDeploys == 2

(***************************************************************************)
(* Program constants                                                       *)
(***************************************************************************)
MIN_CODE_LENGTH == 2
MAX_CODE_LENGTH == 6
\* for _ in range(10)
TRIES_PER_LENGTH == 10
\* SQL NULL in a timestamp column (timestamps of the model start at 1)
NULL == 0
\* LIMIT 100 of the listing query
LISTING_LIMIT == 100
\* gcloud_deploy.py: versions kept
VERSION_MAX == 10

(***************************************************************************)
(* Characters and str methods                                              *)
(***************************************************************************)
ascii_lowercase ==
  << "a","b","c","d","e","f","g","h","i","j","k","l","m",
     "n","o","p","q","r","s","t","u","v","w","x","y","z" >>

ascii_uppercase ==
  << "A","B","C","D","E","F","G","H","I","J","K","L","M",
     "N","O","P","Q","R","S","T","U","V","W","X","Y","Z" >>

digits == << "0","1","2","3","4","5","6","7","8","9" >>

\* characters str.strip() removes
Whitespace == { " ", "\t", "\n" }

UpperSet == { ascii_uppercase[i] : i \in 1..26 }

\* the lowercase letter of every uppercase letter
ToLower ==
  [c \in UpperSet |-> ascii_lowercase[CHOOSE i \in 1..26 : ascii_uppercase[i] = c]]

LowerChar(c) == IF c \in UpperSet THEN ToLower[c] ELSE c

\* str.lower()
Lower(s) == [i \in 1..Len(s) |-> LowerChar(s[i])]

RECURSIVE LStrip(_)
LStrip(s) ==
  IF s # << >> /\ Head(s) \in Whitespace THEN LStrip(Tail(s)) ELSE s

RECURSIVE RStrip(_)
RStrip(s) ==
  IF s # << >> /\ s[Len(s)] \in Whitespace
    THEN RStrip(SubSeq(s, 1, Len(s) - 1))
    ELSE s

\* the fields taken as typed
StripNothing(s) == s

\* str.strip()
Strip(s) == RStrip(LStrip(s))

\* str.startswith(prefix)
StartsWith(s, prefix) ==
  /\ Len(s) >= Len(prefix)
  /\ SubSeq(s, 1, Len(prefix)) = prefix

HttpPrefix == << "h","t","t","p",":","/","/" >>
HttpsPrefix == << "h","t","t","p","s",":","/","/" >>

HasScheme(s) == StartsWith(s, HttpPrefix) \/ StartsWith(s, HttpsPrefix)

\* the protocol test that knows 'https://' only
EnsureProtocolHttpsOnly(long_url) ==
  IF ~ StartsWith(long_url, HttpsPrefix) THEN HttpsPrefix \o long_url ELSE long_url

\* shorten / api_shorten: "Ensure URL has protocol"
EnsureProtocol(long_url) ==
  IF ~ HasScheme(long_url) THEN HttpsPrefix \o long_url ELSE long_url


(***************************************************************************)
(* Code generator                                                          *)
(***************************************************************************)
\* the alphabet with both cases of the letters
charsMixedCase == ascii_lowercase \o ascii_uppercase \o digits

\* chars = string.ascii_lowercase + string.digits
chars == ascii_lowercase \o digits

\* the symbols random.choices draws the last character from: the first
\* NChars of chars
Alphabet == { chars[i] : i \in 1..NChars }

\* the population random.choices draws from, with replacement
CharSet == { chars[i] : i \in 1..Len(chars) }

\* generate_short_code(length): every string ''.join(random.choices(chars,
\* k=length)) may return
generate_short_code(length) == [1..length -> CharSet]

\* the candidates find_available_code is given by generate_short_code(length),
\* cut to those that are chars[0] up to the last character
Candidates(length) ==
  { [i \in 1..length |-> IF i < length THEN chars[1] ELSE c] : c \in Alphabet }

(***************************************************************************)
(* Deployment                                                              *)
(***************************************************************************)
\* gcloud app deploy ... --set-env-vars=ADMIN_KEY=...: the deployed service
\* runs with a shared secret in its environment
AdminKeyConfigured == TRUE

EXPECTED_PROJECT_ID == "briskr"

KUMORI_PROJECT == "kumori-404602"

\* what 'gcloud config get-value project' can print: the expected project,
\* another project, or nothing when no project is set
Projects == { EXPECTED_PROJECT_ID, KUMORI_PROJECT, "" }

\* current_project before the first read
Unread == "(unread)"

\* the comparison that lets the script go on without checking
ProjectOkAlways(current_project) == TRUE

\* if current_project != EXPECTED_PROJECT_ID: ... sys.exit(1)
ProjectOk(current_project) == current_project = EXPECTED_PROJECT_ID

\* a version is identified by its createTime
\* versions.sort(key=createTime, reverse=True): newest first
NewestFirst(versions) ==
  [i \in 1..Cardinality(versions) |->
     CHOOSE v \in versions : Cardinality({ w \in versions : w > v }) = i - 1] \o << >>

\* updated_versions[VERSION_MAX:]
BeyondMax(updated_versions) ==
  SubSeq(updated_versions, VERSION_MAX + 1, Len(updated_versions))

\* the version 'gcloud app deploy' creates is the newest of the service
NewVersion(versions) ==
  IF versions = {} THEN 1
  ELSE 1 + (CHOOSE v \in versions : \A w \in versions : w <= v)

\* the script when it is not running
NoScript ==
  [pc |-> "off", status |-> 0, runs |-> 0,
   current_project |-> Unread,
   versions |-> << >>, version_name |-> 0, to_delete |-> << >>,
   \* what the run has done so far
   before |-> 0, ran |-> {}, deployed |-> FALSE,
   deleted |-> {}, cleanup_failed |-> FALSE]

(***************************************************************************)
(* Inputs of the requests                                                  *)
(***************************************************************************)
\* client addresses
Ips == { "10.0.0.1", "10.0.0.2" }

Schemeless == << " ","e" >>
WithScheme == << "h","t","t","p",":","/","/","e"," " >>
Favicon == << "f","a","v","i","c","o","n",".","i","c","o" >>

CreateRequest(route, url, code, ip) ==
  [route |-> route, url |-> url, code |-> code, ip |-> ip]

\* the POST requests received: route, 'url' field, 'code' field (an absent
\* field is the empty string) and client address
CreateRequests ==
  { CreateRequest("shorten",     << >>,      << >>,            "10.0.0.1"),
    CreateRequest("shorten",     Schemeless, << >>,            "10.0.0.1"),
    CreateRequest("shorten",     Schemeless, << "a","a" >>,    "10.0.0.1"),
    CreateRequest("shorten",     WithScheme, Favicon,          "10.0.0.1"),
    CreateRequest("api_shorten", << " " >>,  << >>,            "10.0.0.2"),
    CreateRequest("api_shorten", WithScheme, << >>,            "10.0.0.2"),
    CreateRequest("api_shorten", Schemeless, << "A","a"," " >>, "10.0.0.2") }

\* the short_code argument of redirect_url ('health' reaches the function
\* only by a direct call: the /health rule takes that path first)
Paths ==
  { << "a","a" >>,
    << "A","A" >>,
    << "z","z" >>,
    << "a","p","i" >>,
    << "h","e","a","l","t","h" >>,
    << "f","a","v","i","c","o","n",".","i","c","o" >>,
    << "F","a","v","i","c","o","n",".","i","c","o" >>,
    << "r","o","b","o","t","s",".","t","x","t" >> }

\* one slot per request of the behaviour
Procs == 1..MaxRequests

(***************************************************************************)
(* State                                                                   *)
(***************************************************************************)
VARIABLES
  urls,     \* table briskr.urls: sequence of committed rows, in id order
  served,   \* served[i]: number of 302 answers given for row i
  now,      \* the database clock
  pc,       \* pc[p]: where request slot p stands in its handler
  req,      \* req[p]: the request as received
  loc,      \* loc[p]: local variables of the handler
  resp,     \* resp[p]: the response returned
  gcloud,   \* the active gcloud project and the versions of the service
  script    \* position, local variables and exit status of gcloud_deploy.py

vars == << urls, served, now, pc, req, loc, resp, gcloud, script >>

NoReq == [route |-> "none", url |-> << >>, code |-> << >>, ip |-> "none"]

NoLoc ==
  [long_url |-> << >>, custom_code |-> << >>, short_code |-> << >>,
   length |-> 0, attempt |-> 0, unchecked |-> FALSE, ts |-> NULL,
   stats |-> << >>, your_urls |-> 0, total_urls |-> 0,
   found |-> [l \in MIN_CODE_LENGTH..MAX_CODE_LENGTH |-> 0],
   conns |-> 0]

NoResp == [status |-> 0, tag |-> "none", code |-> << >>, url |-> << >>]

Response(status, tag, code, url) ==
  [status |-> status, tag |-> tag, code |-> code, url |-> url]

\* conn = get_db_connection(): the request holds one more open connection
Opened(l) == [l EXCEPT !.conns = @ + 1]

\* the function that returns without closing
ClosedNever(l) == l

\* finally: conn.close()
Closed(l) == [l EXCEPT !.conns = @ - 1]


(***************************************************************************)
(* Table briskr.urls                                                       *)
(***************************************************************************)
\* SELECT ... FROM briskr.urls WHERE short_code = %s : is there such a row
CodeExists(table, code) ==
  \E i \in 1..Len(table) : table[i].short_code = code

\* ids of the rows whose short_code is code
RowsOf(table, code) == { i \in 1..Len(table) : table[i].short_code = code }

\* uniqueness constraint of the short_code column: the INSERT is rejected
UniqueViolation(table, short_code) ==
  \E i \in 1..Len(table) : table[i].short_code = short_code

\* the INSERT with its two values in the wrong order
InsertedRowColumnsSwapped(table, short_code, long_url, client_ip, ts) ==
  [id            |-> Len(table) + 1,
   short_code    |-> long_url,
   long_url      |-> short_code,
   click_count   |-> 0,
   created_at    |-> ts,
   last_clicked  |-> NULL,
   created_by_ip |-> client_ip]

\* INSERT INTO briskr.urls (short_code, long_url, created_by_ip): the new row,
\* the other columns taking the defaults of the table
InsertedRow(table, short_code, long_url, client_ip, ts) ==
  [id            |-> Len(table) + 1,
   short_code    |-> short_code,
   long_url      |-> long_url,
   click_count   |-> 0,
   created_at    |-> ts,
   last_clicked  |-> NULL,
   created_by_ip |-> client_ip]

\* the UPDATE that forgets the increment
ClickedRowNoIncrement(row, ts) ==
  [row EXCEPT !.last_clicked = ts]

\* the UPDATE that stamps the wrong timestamp column as well
ClickedRowStampsCreated(row, ts) ==
  [row EXCEPT !.click_count = @ + 1, !.last_clicked = ts, !.created_at = ts]

\* the UPDATE that forgets the timestamp
ClickedRowNoStamp(row, ts) ==
  [row EXCEPT !.click_count = @ + 1]

\* the UPDATE that counts downwards
ClickedRowDecrement(row, ts) ==
  [row EXCEPT !.click_count = @ - 1, !.last_clicked = ts]

\* UPDATE ... SET click_count = click_count + 1, last_clicked = CURRENT_TIMESTAMP
ClickedRow(row, ts) ==
  [row EXCEPT !.click_count = @ + 1, !.last_clicked = ts]

\* the UPDATE without its WHERE clause
ClickMatchesAnyRow(row, code) == TRUE

\* ... WHERE short_code = %s of the UPDATE
ClickMatches(row, code) == row.short_code = code

\* the whole UPDATE statement of get_long_url on the table
ClickUpdate(table, code, ts) ==
  [i \in 1..Len(table) |->
     IF ClickMatches(table[i], code) THEN ClickedRow(table[i], ts) ELSE table[i]]

\* RETURNING long_url: ids of the rows the UPDATE touched
ClickReturning(table, code) ==
  { i \in 1..Len(table) : ClickMatches(table[i], code) }

\* the reserved list without 'favicon.ico'
ReservedCodesNoFavicon ==
  { << "r","o","b","o","t","s",".","t","x","t" >>,
    << "h","e","a","l","t","h" >>,
    << "a","p","i" >> }

\* if short_code in ('favicon.ico', 'robots.txt', 'health', 'api')
ReservedCodes ==
  { << "f","a","v","i","c","o","n",".","i","c","o" >>,
    << "r","o","b","o","t","s",".","t","x","t" >>,
    << "h","e","a","l","t","h" >>,
    << "a","p","i" >> }

\* the existence check on the code as typed
CustomLookupKeyAsTyped(custom_code) == custom_code

\* the custom code stored as typed
CustomShortCodeAsTyped(custom_code) == custom_code

\* create_short_url: the key of the existence check, custom_code.lower()
CustomLookupKey(custom_code) == Lower(custom_code)

\* create_short_url: short_code = custom_code.lower()
CustomShortCode(custom_code) == Lower(custom_code)

\* get_long_url: the key of the UPDATE, short_code.lower()
ResolveKey(short_code) == Lower(short_code)

(***************************************************************************)
(* The listing and counting queries                                        *)
(***************************************************************************)
\* the listing query without its WHERE clause
IpMatchesAnyRow(row, client_ip) == TRUE

\* ... WHERE created_by_ip = %s
IpMatches(row, client_ip) == row.created_by_ip = client_ip

\* SELECT short_code, long_url, click_count, created_at, last_clicked
ListedRow(row) ==
  [short_code   |-> row.short_code,
   long_url     |-> row.long_url,
   click_count  |-> row.click_count,
   created_at   |-> row.created_at,
   last_clicked |-> row.last_clicked]

\* the order in which the server hands out rows of equal created_at is not
\* fixed by the query: by ascending or by descending id
TieOrders == { "id_asc", "id_desc" }

\* ORDER BY created_at ASC
ComesBeforeAscending(a, b, tie) ==
  \/ a.created_at < b.created_at
  \/ /\ a.created_at = b.created_at
     /\ IF tie = "id_asc" THEN a.id < b.id ELSE a.id > b.id

\* ORDER BY created_at DESC: row a is handed out before row b
ComesBefore(a, b, tie) ==
  \/ a.created_at > b.created_at
  \/ /\ a.created_at = b.created_at
     /\ IF tie = "id_asc" THEN a.id < b.id ELSE a.id > b.id

\* LIMIT 100: how many of n selected rows are returned
ListingLength(n) == IF n < LISTING_LIMIT THEN n ELSE LISTING_LIMIT

\* the place of every selected row in the order of the ORDER BY clause
Ranks(rows, tie) ==
  [i \in 1..Len(rows) |->
     1 + Cardinality({ j \in 1..Len(rows) : ComesBefore(rows[j], rows[i], tie) })] \o << >>

\* the rows the listing query of get_stats_by_ip returns under one tie order
Listing(table, client_ip, tie) ==
  LET matching == SelectSeq(table, LAMBDA row : IpMatches(row, client_ip))
      rank     == Ranks(matching, tie)
  IN [k \in 1..ListingLength(Len(matching)) |->
        ListedRow(matching[CHOOSE i \in 1..Len(matching) : rank[i] = k])] \o << >>

\* cur.fetchall() of get_stats_by_ip: every result the query may give
IpListings(table, client_ip) ==
  { Listing(table, client_ip, tie) : tie \in TieOrders }

\* the lookup done with the statement of get_long_url
AfterLookupCountsClick(table, code, ts) == ClickUpdate(table, code, ts)

\* the table after the SELECT of get_url_by_code: a SELECT, no commit
AfterLookup(table, code, ts) == table

\* SELECT COUNT(*) ... WHERE created_by_ip = %s
CountByIp(table, client_ip) ==
  Cardinality({ i \in 1..Len(table) : table[i].created_by_ip = client_ip })

\* SELECT COUNT(*) FROM briskr.urls
CountAll(table) == Len(table)

(***************************************************************************)
(* Initial states. Every row of an initial table is one an earlier         *)
(* allocation left there.                                                  *)
(***************************************************************************)
SeedCode(length) == [i \in 1..length |-> chars[1]]

SeedRow(i) ==
  [id            |-> i,
   short_code    |-> SeedCode(MIN_CODE_LENGTH + i - 1),
   long_url      |-> HttpsPrefix \o << "e" >>,
   click_count   |-> 0,
   created_at    |-> i,
   last_clicked  |-> NULL,
   created_by_ip |-> "10.0.0.1"]

\* a table with one Link
OneRowTable == << SeedRow(1) >>

\* a table that holds one code of every length the allocator tries
FullTable == [i \in 1..(MAX_CODE_LENGTH - MIN_CODE_LENGTH + 1) |-> SeedRow(i)]

\* a table with Links of both client addresses
MixedTable ==
  [i \in 1..3 |->
     [SeedRow(i) EXCEPT !.created_by_ip = IF i = 2 THEN "10.0.0.2" ELSE "10.0.0.1"]]

\* the i-th two-character code, in the order of chars
ListedCode(i) == << chars[((i - 1) \div 36) + 1], chars[((i - 1) % 36) + 1] >>

\* row i of a long table: all rows but the first belong to one address; a
\* transaction that began earlier may have inserted later, and rows 2 and 4
\* were created at the same time
ListedSeedRow(i) ==
  [id            |-> i,
   short_code    |-> ListedCode(i),
   long_url      |-> HttpsPrefix \o << "e" >>,
   click_count   |-> 0,
   created_at    |-> IF i \in { 2, 4 } THEN 1 ELSE IF i % 2 = 0 THEN i - 1 ELSE i + 1,
   last_clicked  |-> NULL,
   created_by_ip |-> IF i = 1 THEN "10.0.0.2" ELSE "10.0.0.1"]

LongTable(n) == [i \in 1..n |-> ListedSeedRow(i)]

\* tables around the size at which the listing is cut
ListedTables ==
  { LongTable(n) : n \in (0..5) \cup ((LISTING_LIMIT - 1)..(LISTING_LIMIT + 1 + MaxExtraRows)) }

\* the service starts on one of the tables, no request received yet
Serving(tables) ==
  /\ urls \in tables
  /\ served = [i \in 1..Len(urls) |-> 0]
  /\ now = Len(urls) + 1
  /\ pc = [p \in Procs |-> "idle"]
  /\ req = [p \in Procs |-> NoReq]
  /\ loc = [p \in Procs |-> NoLoc]
  /\ resp = [p \in Procs |-> NoResp]

\* the service as deployed from the expected project; the deployment script
\* is not running
InitWith(tables) ==
  /\ Serving(tables)
  /\ gcloud = [project |-> EXPECTED_PROJECT_ID, versions |-> { 1 }]
  /\ script = NoScript

Init == InitWith({ << >>, OneRowTable })

InitFull == InitWith({ FullTable })

InitStats == InitWith({ OneRowTable, MixedTable })

\* a table whose second Link was created with the custom code 'health'
HealthTable ==
  << SeedRow(1),
     [SeedRow(2) EXCEPT !.short_code = << "h","e","a","l","t","h" >>,
                        !.created_by_ip = "10.0.0.2"] >>

InitRead == InitWith({ MixedTable, HealthTable })

InitList == InitWith(ListedTables)

\* the requests of a behaviour take the slots in order
MayStart(p) ==
  /\ pc[p] = "idle"
  /\ p > 1 => pc[p - 1] # "idle"

(***************************************************************************)
(* POST /shorten and POST /api/shorten                                     *)
(***************************************************************************)
\* what the route answers when create_short_url returns result: the form
\* route redirects to home (302), the API route returns jsonify(result) (200)
ResultStatus(route) == IF route = "shorten" THEN 302 ELSE 200

\* what the route answers on a missing url
MissingUrlStatus(route) == IF route = "shorten" THEN 302 ELSE 400

\* the handler up to its first SQL statement: read and trim the fields,
\* refuse an empty url, add the protocol, enter create_short_url
ReceiveCreate(p, route, url, code, ip) ==
  LET long_url    == Strip(url)
      custom_code == Strip(code)     \* << >> stands for None
  IN
  /\ MayStart(p)
  /\ now' = now + 1
  /\ req' = [req EXCEPT ![p] = CreateRequest(route, url, code, ip)]
  /\ IF long_url = << >>
       THEN /\ pc' = [pc EXCEPT ![p] = "done"]
            /\ resp' = [resp EXCEPT ![p] =
                 Response(MissingUrlStatus(route), "URL is required", << >>, << >>)]
            /\ loc' = loc
       ELSE /\ pc' = [pc EXCEPT ![p] = IF custom_code # << >> THEN "check" ELSE "search"]
            /\ loc' = [loc EXCEPT ![p] =
                 LET entered ==
                       [NoLoc EXCEPT !.long_url = EnsureProtocol(long_url),
                                     !.custom_code = custom_code,
                                     !.length = IF custom_code # << >> THEN 0 ELSE MIN_CODE_LENGTH]
                 IN \* create_short_url opens its connection; without custom
                    \* code find_available_code opens a second one
                    IF custom_code # << >> THEN Opened(entered) ELSE Opened(Opened(entered))]
            /\ resp' = resp
  /\ UNCHANGED << gcloud, script, urls, served >>

shorten(p) ==
  \E r \in CreateRequests :
    /\ r.route = "shorten"
    /\ ReceiveCreate(p, r.route, r.url, r.code, r.ip)

api_shorten(p) ==
  \E r \in CreateRequests :
    /\ r.route = "api_shorten"
    /\ ReceiveCreate(p, r.route, r.url, r.code, r.ip)

\* create_short_url, custom code: the existence check
CheckCustomCode(p) ==
  /\ pc[p] = "check"
  /\ IF CodeExists(urls, CustomLookupKey(loc[p].custom_code))
       THEN /\ pc' = [pc EXCEPT ![p] = "done"]
            /\ resp' = [resp EXCEPT ![p] =
                 Response(ResultStatus(req[p].route), "CodeTaken", loc[p].custom_code, << >>)]
            /\ loc' = [loc EXCEPT ![p] = Closed(@)]
       ELSE /\ pc' = [pc EXCEPT ![p] = "insert"]
            /\ loc' = [loc EXCEPT ![p].short_code = CustomShortCode(loc[p].custom_code),
                                  ![p].ts = now]
            /\ resp' = resp
  /\ UNCHANGED << gcloud, script, urls, served, now, req >>

\* find_available_code: one candidate, found absent, is returned
FindCodeFree(p) ==
  /\ pc[p] = "search"
  /\ \E code \in Candidates(loc[p].length) :
       /\ ~ CodeExists(urls, code)
       /\ loc' = [loc EXCEPT ![p] =
                 Closed([@ EXCEPT !.short_code = code,
                                  !.length = 0, !.attempt = 0,
                                  !.found = NoLoc.found])]
  /\ pc' = [pc EXCEPT ![p] = "insert"]
  /\ UNCHANGED << gcloud, script, urls, served, now, req, resp >>

\* the loops that pass over a length
NextTrySkipsLength(l) ==
  IF l.attempt + 1 < TRIES_PER_LENGTH
    THEN [l EXCEPT !.attempt = @ + 1, !.found[l.length] = @ + 1]
    ELSE [l EXCEPT !.attempt = 0, !.length = @ + 2, !.found[l.length] = @ + 1]

\* the loops that never leave their length
NextTryNeverWidens(l) ==
  [l EXCEPT !.attempt = (@ + 1) % TRIES_PER_LENGTH, !.found[l.length] = @ + 1]

\* the loop variables of find_available_code after one more candidate was
\* found present; found[n] counts the candidates of length n found present
NextTry(l) ==
  IF l.attempt + 1 < TRIES_PER_LENGTH
    THEN [l EXCEPT !.attempt = @ + 1, !.found[l.length] = @ + 1]
    ELSE [l EXCEPT !.attempt = 0, !.length = @ + 1, !.found[l.length] = @ + 1]

\* find_available_code: one candidate, found present; the loops go on, or,
\* after the last candidate of the last length, the function returns
\* generate_short_code(MAX_CODE_LENGTH) unchecked
FindCodeTaken(p) ==
  /\ pc[p] = "search"
  /\ \E code \in Candidates(loc[p].length) : CodeExists(urls, code)
  /\ IF NextTry(loc[p]).length <= MAX_CODE_LENGTH
       THEN /\ loc' = [loc EXCEPT ![p] = NextTry(loc[p])]
            /\ pc' = pc
       ELSE /\ \E code \in Candidates(MAX_CODE_LENGTH) :
                 loc' = [loc EXCEPT ![p] =
                   Closed([@ EXCEPT !.short_code = code,
                                    !.length = 0, !.attempt = 0,
                                    !.found = NoLoc.found,
                                    !.unchecked = TRUE])]
            /\ pc' = [pc EXCEPT ![p] = "insert"]
  /\ UNCHANGED << gcloud, script, urls, served, now, req, resp >>

\* create_short_url: INSERT ... RETURNING, commit, build the result
InsertUrl(p) ==
  LET ts == IF loc[p].ts = NULL THEN now ELSE loc[p].ts
      row == InsertedRow(urls, loc[p].short_code, loc[p].long_url, req[p].ip, ts)
  IN
  /\ pc[p] = "insert"
  /\ IF UniqueViolation(urls, loc[p].short_code)
       THEN /\ urls' = urls
            /\ served' = served
            /\ resp' = [resp EXCEPT ![p] =
                 Response(500, "UniqueViolation", loc[p].short_code, << >>)]
       ELSE /\ urls' = Append(urls, row)
            /\ served' = Append(served, 0)
            /\ resp' = [resp EXCEPT ![p] =
                 Response(ResultStatus(req[p].route), "created", row.short_code, row.long_url)]
  /\ pc' = [pc EXCEPT ![p] = "done"]
  /\ loc' = [loc EXCEPT ![p] = Closed(@)]
  /\ UNCHANGED << gcloud, script, now, req >>

(***************************************************************************)
(* GET /<short_code>                                                       *)
(***************************************************************************)
\* redirect_url up to the UPDATE reaching the server
redirect_url(p) ==
  \E short_code \in Paths :
    /\ MayStart(p)
    /\ now' = now + 1
    /\ req' = [req EXCEPT ![p] =
         [route |-> "redirect_url", url |-> << >>, code |-> short_code, ip |-> "none"]]
    /\ IF short_code \in ReservedCodes
         THEN /\ pc' = [pc EXCEPT ![p] = "done"]
              /\ resp' = [resp EXCEPT ![p] = Response(404, "NotFound", << >>, << >>)]
              /\ loc' = loc
         ELSE /\ pc' = [pc EXCEPT ![p] = "update"]
              /\ loc' = [loc EXCEPT ![p] = Opened([NoLoc EXCEPT !.ts = now'])]
              /\ resp' = resp
    /\ UNCHANGED << gcloud, script, urls, served >>

\* get_long_url: the UPDATE takes the row, commits, and the route answers
get_long_url(p) ==
  LET key  == ResolveKey(req[p].code)
      hits == ClickReturning(urls, key)
      first == CHOOSE i \in hits : \A j \in hits : i <= j
  IN
  /\ pc[p] = "update"
  /\ urls' = ClickUpdate(urls, key, loc[p].ts)
  /\ IF hits # {}
       THEN /\ resp' = [resp EXCEPT ![p] =
                 Response(302, "redirect", << >>, urls'[first].long_url)]
            /\ served' = [served EXCEPT ![first] = @ + 1]
       ELSE /\ resp' = [resp EXCEPT ![p] = Response(404, "NotFound", << >>, << >>)]
            /\ served' = served
  /\ pc' = [pc EXCEPT ![p] = "done"]
  /\ loc' = [loc EXCEPT ![p] = Closed(@)]
  /\ UNCHANGED << gcloud, script, now, req >>

\* redirect_url from its first line to its return, run alone on a table at
\* time ts: the answer and the table it leaves
ResolveOutcome(table, short_code, ts) ==
  LET key  == ResolveKey(short_code)
      hits == ClickReturning(table, key)
      first == CHOOSE i \in hits : \A j \in hits : i <= j
  IN
  IF short_code \in ReservedCodes
    THEN [status |-> 404, url |-> << >>, table |-> table]
    ELSE [status |-> IF hits # {} THEN 302 ELSE 404,
          url    |-> IF hits # {} THEN table[first].long_url ELSE << >>,
          table  |-> ClickUpdate(table, key, ts)]

(***************************************************************************)
(* GET / and GET /api/stats                                                *)
(***************************************************************************)
\* the 'created' query parameter of GET / (empty: absent)
CreatedParams == { << >>, << "a","a" >> }

StatsRequest(route, created, ip) ==
  [route |-> route, url |-> << >>, code |-> created, ip |-> ip]

\* home up to its first query: get_url_by_code when 'created' is given, the
\* listing otherwise
home(p) ==
  \E created \in CreatedParams, ip \in Ips :
    /\ MayStart(p)
    /\ now' = now + 1
    /\ req' = [req EXCEPT ![p] = StatsRequest("home", created, ip)]
    /\ pc' = [pc EXCEPT ![p] = IF created # << >> THEN "lookup" ELSE "stats"]
    /\ loc' = [loc EXCEPT ![p] = Opened(NoLoc)]
    /\ UNCHANGED << gcloud, script, urls, served, resp >>

\* get_url_by_code(created): the SELECT by short_code.lower()
get_url_by_code(p) ==
  LET hits == RowsOf(urls, Lower(req[p].code))
      row  == urls[CHOOSE i \in hits : \A j \in hits : i <= j]
  IN
  /\ pc[p] = "lookup"
  /\ loc' = [loc EXCEPT ![p] =
       \* its connection is closed, get_stats_by_ip opens the next one
       Opened(Closed(IF hits # {}
                       THEN [@ EXCEPT !.short_code = row.short_code,
                                      !.long_url = row.long_url]
                       ELSE @))]
  /\ pc' = [pc EXCEPT ![p] = "stats"]
  /\ urls' = AfterLookup(urls, Lower(req[p].code), now)
  /\ UNCHANGED << gcloud, script, served, now, req, resp >>

\* api_stats up to its first query, get_url_count_by_ip
api_stats(p) ==
  \E ip \in Ips :
    /\ MayStart(p)
    /\ now' = now + 1
    /\ req' = [req EXCEPT ![p] = StatsRequest("api_stats", << >>, ip)]
    /\ pc' = [pc EXCEPT ![p] = "count"]
    /\ loc' = [loc EXCEPT ![p] = Opened(NoLoc)]
    /\ UNCHANGED << gcloud, script, urls, served, resp >>

\* get_stats_by_ip(client_ip): first of the three queries of home, last of
\* the three of api_stats
get_stats_by_ip(p) ==
  /\ pc[p] = "stats"
  /\ \E listing \in IpListings(urls, req[p].ip) :
       loc' = [loc EXCEPT ![p] =
         IF req[p].route = "home"
           THEN Opened(Closed([@ EXCEPT !.stats = listing]))
           ELSE Closed([@ EXCEPT !.stats = listing])]
  /\ IF req[p].route = "home"
       THEN /\ pc' = [pc EXCEPT ![p] = "count"]
            /\ resp' = resp
       ELSE /\ pc' = [pc EXCEPT ![p] = "done"]
            /\ resp' = [resp EXCEPT ![p] = Response(200, "stats", << >>, << >>)]
  /\ UNCHANGED << gcloud, script, urls, served, now, req >>

\* get_url_count_by_ip(client_ip)
get_url_count_by_ip(p) ==
  /\ pc[p] = "count"
  /\ loc' = [loc EXCEPT ![p] =
       Opened(Closed([@ EXCEPT !.your_urls = CountByIp(urls, req[p].ip)]))]
  /\ pc' = [pc EXCEPT ![p] = "total"]
  /\ UNCHANGED << gcloud, script, urls, served, now, req, resp >>

\* get_total_urls(): last query of home, second of api_stats
get_total_urls(p) ==
  /\ pc[p] = "total"
  /\ loc' = [loc EXCEPT ![p] =
       IF req[p].route = "home"
         THEN Closed([@ EXCEPT !.total_urls = CountAll(urls)])
         ELSE Opened(Closed([@ EXCEPT !.total_urls = CountAll(urls)]))]
  /\ IF req[p].route = "home"
       THEN /\ pc' = [pc EXCEPT ![p] = "done"]
            /\ resp' = [resp EXCEPT ![p] =
                 Response(200, "home", loc[p].short_code, loc[p].long_url)]
       ELSE /\ pc' = [pc EXCEPT ![p] = "stats"]
            /\ resp' = resp
  /\ UNCHANGED << gcloud, script, urls, served, now, req >>

(***************************************************************************)
(* GET /health                                                             *)
(***************************************************************************)
\* the probe that reports the service as down
HealthBodyDown(client_ip) == [status |-> "down", your_ip |-> client_ip]

\* jsonify({"status": "ok", "your_ip": g.client_ip})
HealthBody(client_ip) == [status |-> "ok", your_ip |-> client_ip]

\* health: the rule /health is matched before /<short_code>; log_request_info
\* has set g.client_ip; no connection is opened
health(p) ==
  \E ip \in Ips :
    /\ MayStart(p)
    /\ now' = now + 1
    /\ req' = [req EXCEPT ![p] = StatsRequest("health", << >>, ip)]
    /\ pc' = [pc EXCEPT ![p] = "done"]
    /\ resp' = [resp EXCEPT ![p] =
         [status |-> 200, tag |-> "health", code |-> << >>, url |-> << >>,
          body |-> HealthBody(ip)]]
    /\ UNCHANGED << gcloud, script, urls, served, loc >>

(***************************************************************************)
(* The generator on its own                                                *)
(***************************************************************************)
\* one call generate_short_code(length), its result kept in slot 1
GenerateCode ==
  /\ pc[1] = "idle"
  /\ \E length \in 0..MaxGenLength :
       \E code \in generate_short_code(length) :
         loc' = [loc EXCEPT ![1].length = length, ![1].short_code = code]
  /\ pc' = [pc EXCEPT ![1] = "done"]
  /\ UNCHANGED << gcloud, script, urls, served, now, req, resp >>

(***************************************************************************)
(* Store failures                                                          *)
(***************************************************************************)
\* the handler positions whose next statement goes to the database
WritePathSteps == { "check", "search", "insert" }

\* what Flask answers when a handler raises
ServerError == Response(500, "StoreError", << >>, << >>)

\* get_db_connection or a statement raises inside create_short_url,
\* find_available_code or get_long_url: no handler catches it, the
\* connection is closed without commit and the request is answered 500
StoreFails(p) ==
  /\ pc[p] \in WritePathSteps \cup { "update" }
  /\ pc' = [pc EXCEPT ![p] = "done"]
  /\ resp' = [resp EXCEPT ![p] = ServerError]
  \* the finally blocks run while the exception unwinds: that of
  \* find_available_code first when the search raised
  /\ loc' = [loc EXCEPT ![p] = IF pc[p] = "search" THEN Closed(Closed(@)) ELSE Closed(@)]
  /\ UNCHANGED << gcloud, script, urls, served, now, req >>

\* the handler positions inside the try block of home
ReadPathSteps == { "stats", "count", "total" }

\* get_db_connection or a query raises on a read path: home catches it
\* around its three listing queries and renders an empty listing with zero
\* counts; get_url_by_code of home and the queries of api_stats are not
\* inside any try block and the request is answered 500
StatsQueryFails(p) ==
  /\ pc[p] \in ReadPathSteps \cup { "lookup" }
  /\ IF req[p].route = "home" /\ pc[p] \in ReadPathSteps
       THEN /\ loc' = [loc EXCEPT ![p] =
                 Closed([@ EXCEPT !.stats = << >>,
                                  !.your_urls = 0,
                                  !.total_urls = 0])]
            /\ resp' = [resp EXCEPT ![p] =
                 Response(200, "degraded", loc[p].short_code, loc[p].long_url)]
       ELSE /\ loc' = [loc EXCEPT ![p] = Closed(@)]
            /\ resp' = [resp EXCEPT ![p] = ServerError]
  /\ pc' = [pc EXCEPT ![p] = "done"]
  /\ UNCHANGED << gcloud, script, urls, served, now, req >>

Next ==
  \E p \in Procs :
    \/ shorten(p)
    \/ api_shorten(p)
    \/ CheckCustomCode(p)
    \/ FindCodeFree(p)
    \/ FindCodeTaken(p)
    \/ InsertUrl(p)
    \/ redirect_url(p)
    \/ get_long_url(p)

\* requests against a table that is empty or holds one Link
Spec == Init /\ [][Next]_vars

\* the same requests against a table that holds a code of every length
SpecFull == InitFull /\ [][Next]_vars

\* the creation routes against a database that may fail at any statement
NextFail ==
  \E p \in Procs :
    \/ shorten(p)
    \/ api_shorten(p)
    \/ CheckCustomCode(p)
    \/ FindCodeFree(p)
    \/ FindCodeTaken(p)
    \/ InsertUrl(p)
    \/ StoreFails(p)

SpecFail == Init /\ [][NextFail]_vars

\* the creation routes alone
NextCreate ==
  \E p \in Procs :
    \/ shorten(p)
    \/ api_shorten(p)
    \/ CheckCustomCode(p)
    \/ FindCodeFree(p)
    \/ FindCodeTaken(p)
    \/ InsertUrl(p)

\* allocations against an empty table and against one that holds a code of
\* every length
SpecSearch == InitWith({ << >>, FullTable }) /\ [][NextCreate]_vars

\* calls of the generator for every length up to MaxGenLength
SpecGen == Init /\ [][GenerateCode]_vars

\* the listing routes against a database whose queries may fail
NextStats ==
  \E p \in Procs :
    \/ home(p)
    \/ get_url_by_code(p)
    \/ api_stats(p)
    \/ get_stats_by_ip(p)
    \/ get_url_count_by_ip(p)
    \/ get_total_urls(p)
    \/ StatsQueryFails(p)

SpecStats == InitStats /\ [][NextStats]_vars

\* the routes that answer GET, against a database whose statements may fail
NextRead ==
  \E p \in Procs :
    \/ home(p)
    \/ get_url_by_code(p)
    \/ api_stats(p)
    \/ get_stats_by_ip(p)
    \/ get_url_count_by_ip(p)
    \/ get_total_urls(p)
    \/ health(p)
    \/ redirect_url(p)
    \/ get_long_url(p)
    \/ StatsQueryFails(p)
    \/ StoreFails(p)

SpecRead == InitRead /\ [][NextRead]_vars

\* GET /api/stats next to allocations
NextStatsCreate ==
  \E p \in Procs :
    \/ shorten(p)
    \/ api_shorten(p)
    \/ CheckCustomCode(p)
    \/ FindCodeFree(p)
    \/ FindCodeTaken(p)
    \/ InsertUrl(p)
    \/ api_stats(p)
    \/ get_url_count_by_ip(p)
    \/ get_total_urls(p)
    \/ get_stats_by_ip(p)

SpecStatsCreate == Init /\ [][NextStatsCreate]_vars

\* one request to any route, against a database whose statements may fail
NextOne ==
  \/ shorten(1)
  \/ api_shorten(1)
  \/ CheckCustomCode(1)
  \/ FindCodeFree(1)
  \/ FindCodeTaken(1)
  \/ InsertUrl(1)
  \/ redirect_url(1)
  \/ get_long_url(1)
  \/ home(1)
  \/ get_url_by_code(1)
  \/ api_stats(1)
  \/ get_stats_by_ip(1)
  \/ get_url_count_by_ip(1)
  \/ get_total_urls(1)
  \/ health(1)
  \/ StoreFails(1)
  \/ StatsQueryFails(1)

SpecOne == InitWith({ << >>, MixedTable, FullTable }) /\ [][NextOne]_vars

(***************************************************************************)
(* gcloud_deploy.py: one step per gcloud command the script runs           *)
(***************************************************************************)
appvars == << urls, served, now, pc, req, loc, resp >>

\* sys.exit(status), or main_deploy going on to the log prompt (status 0)
Exit(s, status) == [s EXCEPT !.pc = "exit", !.status = status]

\* python gcloud_deploy.py
main_deploy ==
  /\ script.pc \in { "off", "exit" }
  /\ script.runs < MaxDeploys
  /\ script' = [NoScript EXCEPT !.pc = "check",
                                !.runs = script.runs + 1,
                                !.before = Cardinality(gcloud.versions)]
  /\ UNCHANGED << appvars, gcloud >>

\* check_gcloud_project: gcloud config get-value project
ReadProject ==
  /\ script.pc = "check"
  /\ \/ script' = Exit(script, 1)                 \* CalledProcessError
     \/ script' = [script EXCEPT
                     !.current_project = gcloud.project,
                     !.pc = IF ProjectOk(gcloud.project) THEN "list" ELSE "switch"]
  /\ UNCHANGED << appvars, gcloud >>

\* check_gcloud_project: activate briskr-config, or set the project
SwitchProject ==
  /\ script.pc = "switch"
  /\ \/ \* the configuration briskr-config exists and is activated: the
        \* active project becomes the one that configuration names
        /\ \E project \in Projects : gcloud' = [gcloud EXCEPT !.project = project]
        /\ script' = [script EXCEPT !.pc = "verify"]
     \/ \* gcloud config set project briskr
        /\ gcloud' = [gcloud EXCEPT !.project = EXPECTED_PROJECT_ID]
        /\ script' = [script EXCEPT !.pc = "verify"]
     \/ \* setting the project fails: CalledProcessError, caught at the end
        /\ gcloud' = gcloud
        /\ script' = Exit(script, 1)
  /\ UNCHANGED appvars

\* check_gcloud_project: the second gcloud config get-value project
VerifyProject ==
  /\ script.pc = "verify"
  /\ \/ script' = Exit(script, 1)                 \* CalledProcessError
     \/ script' = IF ProjectOk(gcloud.project)
                    THEN [script EXCEPT !.current_project = gcloud.project,
                                        !.pc = "list"]
                    ELSE Exit([script EXCEPT !.current_project = gcloud.project], 1)
  /\ UNCHANGED << appvars, gcloud >>

\* deploy_service: versions = get_versions(service_name)
ListVersions ==
  /\ script.pc = "list"
  /\ \/ script' = [script EXCEPT !.versions = NewestFirst(gcloud.versions),
                                  !.ran = @ \cup { "versions list" },
                                  !.pc = "deploy"]
     \/ \* 'Service not found' returns [], any other error is raised and
        \* caught by deploy_service: versions = []
        script' = [script EXCEPT !.versions = << >>,
                                  !.ran = @ \cup { "versions list" },
                                  !.pc = "deploy"]
  /\ UNCHANGED << appvars, gcloud >>

\* deploy_service: gcloud app deploy --version version_name
Deploy ==
  /\ script.pc = "deploy"
  /\ \/ LET version_name == NewVersion(gcloud.versions)
            deployed == [script EXCEPT !.version_name = version_name,
                                       !.ran = @ \cup { "app deploy" },
                                       !.deployed = TRUE]
        IN /\ gcloud' = [gcloud EXCEPT !.versions = @ \cup { version_name }]
           /\ script' = IF Len(script.versions) >= VERSION_MAX
                           THEN [deployed EXCEPT !.pc = "cleanup"]
                           ELSE Exit(deployed, 0)
     \/ \* return False, and main_deploy exits with 1
        /\ gcloud' = gcloud
        /\ script' = Exit([script EXCEPT !.ran = @ \cup { "app deploy" }], 1)
  /\ UNCHANGED appvars

\* deploy_service: updated_versions = get_versions(service_name)
Cleanup ==
  /\ script.pc = "cleanup"
  /\ \/ LET versions_to_delete == BeyondMax(NewestFirst(gcloud.versions))
            listed == [script EXCEPT !.to_delete = versions_to_delete]
        IN script' = IF versions_to_delete = << >>
                       THEN Exit(listed, 0)
                       ELSE [listed EXCEPT !.pc = "delete"]
     \/ \* the listing fails: a warning is printed and the script goes on
        script' = Exit([script EXCEPT !.cleanup_failed = TRUE], 0)
  /\ UNCHANGED << appvars, gcloud >>

\* delete_old_versions: gcloud app versions delete version_id
DeleteVersion ==
  /\ script.pc = "delete"
  /\ LET version_id == Head(script.to_delete)
     IN \/ /\ gcloud' = [gcloud EXCEPT !.versions = @ \ { version_id }]
           /\ LET deleted == [script EXCEPT !.to_delete = Tail(@),
                                            !.ran = @ \cup { "versions delete" },
                                            !.deleted = @ \cup { version_id }]
              IN script' = IF deleted.to_delete = << >>
                             THEN Exit(deleted, 0)
                             ELSE deleted
        \/ \* the command fails: the handler of deploy_service reads
           \* e.stderr, which was not captured, and the script ends with a
           \* traceback
           /\ gcloud' = gcloud
           /\ script' = Exit([script EXCEPT !.ran = @ \cup { "versions delete" },
                                            !.cleanup_failed = TRUE], 1)
  /\ UNCHANGED appvars

NextDeploy ==
  \/ main_deploy
  \/ ReadProject
  \/ SwitchProject
  \/ VerifyProject
  \/ ListVersions
  \/ Deploy
  \/ Cleanup
  \/ DeleteVersion

\* the script is run against a service of 0 .. VERSION_MAX + MaxExtraVersions
\* versions, with any project active
InitDeploy ==
  /\ Serving({ << >> })
  /\ \E n \in 0..(VERSION_MAX + MaxExtraVersions) :
       \E project \in Projects :
         gcloud = [project |-> project, versions |-> 1..n]
  /\ script = NoScript

SpecDeploy == InitDeploy /\ [][NextDeploy]_vars

\* one request to a listing route against tables around the size of the
\* LIMIT
NextList ==
  \/ home(1)
  \/ get_url_by_code(1)
  \/ api_stats(1)
  \/ get_stats_by_ip(1)
  \/ get_url_count_by_ip(1)
  \/ get_total_urls(1)

SpecList == InitList /\ [][NextList]_vars

(***************************************************************************)
(* Vocabulary of the properties                                            *)
(***************************************************************************)
CreateRoutes == { "shorten", "api_shorten" }

\* a field that is missing, empty or made of whitespace only
Blank(s) == \A i \in 1..Len(s) : s[i] \in { " ", "\t", "\n" }

\* slot p receives its request in this step
Receives(p) == pc[p] = "idle" /\ pc'[p] # "idle"

\* slot p gets the result of its listing query in this step
ListsNow(p) ==
  /\ pc[p] = "stats" /\ pc'[p] # "stats"
  /\ resp'[p].tag \notin { "StoreError", "degraded" }

\* the rows of the table created from address ip, in id order
OwnRows(table, ip) == SelectSeq(table, LAMBDA r : r.created_by_ip = ip)

\* the answers of a creation route that are not a success
ErrorTags == { "URL is required", "CodeTaken", "UniqueViolation", "StoreError" }

\* slot p returns from its handler in this step
Completes(p) == pc[p] # "done" /\ pc'[p] = "done"

\* slot p returns from redirect_url in this step
CompletesRedirect(p) == Completes(p) /\ req'[p].route = "redirect_url"

\* the four reserved words, as the specification lists them
ReservedWords ==
  { << "f","a","v","i","c","o","n",".","i","c","o" >>,
    << "r","o","b","o","t","s",".","t","x","t" >>,
    << "h","e","a","l","t","h" >>,
    << "a","p","i" >> }

\* slot p holds a finished allocation without custom code
RandomAllocationDone(p) ==
  /\ pc[p] = "done"
  /\ req[p].route \in CreateRoutes
  /\ resp[p].tag # "URL is required"
  /\ loc[p].custom_code = << >>

(***************************************************************************)
(* C1: in every reachable state no two rows of the table have the same     *)
(* lowercase-normalized short_code, whatever the interleaving of the       *)
(* allocations, two equal random candidates that both passed the           *)
(* existence check included.                                               *)
(***************************************************************************)
C1_UniqueShortCodes ==
  \A i \in 1..Len(urls) : \A j \in (i + 1)..Len(urls) :
    Lower(urls[i].short_code) # Lower(urls[j].short_code)

\* two random allocations drew the same checked candidate; one created the
\* row, the other was rejected by the table
C1_Witness ==
  \E p, q \in Procs :
    /\ RandomAllocationDone(p) /\ RandomAllocationDone(q)
    /\ resp[p].tag = "created"
    /\ resp[q].tag = "UniqueViolation"
    /\ resp[q].code = resp[p].code
    /\ ~ loc[q].unchecked
    /\ Cardinality(RowsOf(urls, resp[p].code)) = 1

(***************************************************************************)
(* C2: the click_count of every row equals the number of resolutions of    *)
(* its code that completed with a redirect: each adds exactly 1 and none   *)
(* is lost, in any interleaving.                                           *)
(***************************************************************************)
C2_NoLostClick ==
  \A i \in 1..Len(urls) : urls[i].click_count = served[i]

\* two resolutions of one code were in flight together (the one that began
\* first took the row last) and both are counted
C2_Witness ==
  \E p, q \in Procs, i \in 1..Len(urls) :
    /\ p # q
    /\ pc[p] = "done" /\ pc[q] = "done"
    /\ resp[p].status = 302 /\ resp[q].status = 302
    /\ req[p].route = "redirect_url" /\ req[q].route = "redirect_url"
    /\ Lower(req[p].code) = urls[i].short_code
    /\ Lower(req[q].code) = urls[i].short_code
    /\ loc[p].ts < loc[q].ts
    /\ urls[i].last_clicked = loc[p].ts
    /\ urls[i].click_count = 2

(***************************************************************************)
(* C3 (as claimed): whenever redirect_url returns for a short_code that is *)
(* the short_code of a stored row, the answer is a 302 to that row's       *)
(* long_url.                                                               *)
(***************************************************************************)
C3_StoredCodeRedirects ==
  [][ \A p \in Procs :
        (CompletesRedirect(p) /\ RowsOf(urls, req'[p].code) # {})
          => /\ resp'[p].status = 302
             /\ \A i \in RowsOf(urls, req'[p].code) : resp'[p].url = urls[i].long_url
    ]_vars

(***************************************************************************)
(* C4: the existence check of an allocation whose custom code, lowercased, *)
(* is the short_code of a stored row ends the allocation with CodeTaken    *)
(* and leaves the table as it was, with exactly one row of that code.      *)
(***************************************************************************)
C4_CodeTakenNoMutation ==
  [][ \A p \in Procs :
        ( /\ pc[p] = "check"
          /\ pc'[p] # "check"
          /\ RowsOf(urls, Lower(loc[p].custom_code)) # {} )
          => /\ pc'[p] = "done"
             /\ resp'[p].tag = "CodeTaken"
             /\ urls' = urls
             /\ Cardinality(RowsOf(urls', Lower(loc[p].custom_code))) = 1
    ]_vars

\* a custom code typed with a capital was refused for the stored lowercase code
C4_Witness ==
  \E p \in Procs :
    /\ pc[p] = "done"
    /\ resp[p].tag = "CodeTaken"
    /\ loc[p].custom_code # Lower(loc[p].custom_code)
    /\ Cardinality(RowsOf(urls, Lower(loc[p].custom_code))) = 1

(***************************************************************************)
(* C5: a resolution of a code that, lowercased, is the short_code of no    *)
(* stored row answers 404 and changes nothing in the table.                *)
(***************************************************************************)
C5_UnknownCodeNoMutation ==
  [][ \A p \in Procs :
        (CompletesRedirect(p) /\ RowsOf(urls, Lower(req'[p].code)) = {})
          => /\ resp'[p].status = 404
             /\ urls' = urls
    ]_vars

\* an unknown, unreserved code was resolved against a table that has rows
C5_Witness ==
  \E p \in Procs :
    /\ pc[p] = "done"
    /\ req[p].route = "redirect_url"
    /\ req[p].code \notin ReservedWords
    /\ resp[p].status = 404
    /\ Len(urls) > 0

(***************************************************************************)
(* C6: redirect_url called with one of the four reserved words answers 404 *)
(* and changes nothing in the table, whatever the table holds.             *)
(***************************************************************************)
C6_ReservedNeverResolve ==
  [][ \A p \in Procs :
        (CompletesRedirect(p) /\ req'[p].code \in ReservedWords)
          => /\ resp'[p].status = 404
             /\ urls' = urls
    ]_vars

\* a reserved word was resolved while a row with that short_code is stored
C6_Witness ==
  \E p \in Procs :
    /\ pc[p] = "done"
    /\ req[p].route = "redirect_url"
    /\ req[p].code \in ReservedWords
    /\ RowsOf(urls, req[p].code) # {}
    /\ resp[p].status = 404


(***************************************************************************)
(* C7: a stored row keeps its id, short_code, long_url, created_at and     *)
(* created_by_ip in every step; a step that changes a stored row is the    *)
(* UPDATE of a resolution of that row's code and changes its click_count   *)
(* and last_clicked only; no allocation, the unchecked fallback candidate  *)
(* included, overwrites a stored row.                                      *)
(***************************************************************************)
C7_LinksImmutable ==
  [][ \A i \in 1..Len(urls) :
        /\ i <= Len(urls')
        /\ urls'[i].id = urls[i].id
        /\ urls'[i].short_code = urls[i].short_code
        /\ urls'[i].long_url = urls[i].long_url
        /\ urls'[i].created_at = urls[i].created_at
        /\ urls'[i].created_by_ip = urls[i].created_by_ip
        /\ urls'[i] # urls[i] =>
             \E p \in Procs :
               /\ pc[p] = "update" /\ pc'[p] = "done"
               /\ req[p].route = "redirect_url"
               /\ Lower(req[p].code) = urls[i].short_code
    ]_vars

\* an allocation went through the unchecked fallback and a row has been clicked
C7_Witness ==
  /\ \E p \in Procs :
       /\ pc[p] = "done"
       /\ req[p].route \in CreateRoutes
       /\ loc[p].unchecked
  /\ \E i \in 1..Len(urls) : urls[i].click_count > 0

(***************************************************************************)
(* C8: in every step the table keeps all its rows (it only grows) and no   *)
(* click_count decreases; every click_count is non-negative.               *)
(***************************************************************************)
C8_GrowOnly ==
  [][ /\ Len(urls') >= Len(urls)
      /\ \A i \in 1..Len(urls) :
           /\ urls'[i].short_code = urls[i].short_code
           /\ urls'[i].click_count >= urls[i].click_count
      /\ \A i \in 1..Len(urls') : urls'[i].click_count >= 0
    ]_vars

\* a row was added to the table and then clicked
C8_Witness ==
  \E p \in Procs :
    /\ pc[p] = "done"
    /\ resp[p].tag = "created"
    /\ \E i \in RowsOf(urls, resp[p].code) : urls[i].click_count = 1

(***************************************************************************)
(* C9 (as claimed): when an allocation has created a row, its long_url is  *)
(* 'https://' followed by the trimmed submitted url if the submitted url   *)
(* does not start with http:// or https://, and the submitted url itself   *)
(* if it does.                                                             *)
(***************************************************************************)
C9_SubmittedUrlStored ==
  \A p \in Procs :
    (pc[p] = "done" /\ req[p].route \in CreateRoutes /\ resp[p].tag = "created")
      => \E i \in RowsOf(urls, resp[p].code) :
           urls[i].long_url =
             IF StartsWith(req[p].url, HttpPrefix) \/ StartsWith(req[p].url, HttpsPrefix)
               THEN req[p].url
               ELSE HttpsPrefix \o Strip(req[p].url)

(***************************************************************************)
(* C9 (amended): when an allocation has created a row, its long_url is the *)
(* trimmed submitted url if that starts with http:// or https://, and      *)
(* 'https://' followed by the trimmed submitted url otherwise; every       *)
(* stored long_url starts with http:// or https://.                        *)
(***************************************************************************)
C9_TrimmedUrlStored ==
  /\ \A p \in Procs :
       (pc[p] = "done" /\ req[p].route \in CreateRoutes /\ resp[p].tag = "created")
         => \E i \in RowsOf(urls, resp[p].code) :
              urls[i].long_url =
                IF \/ StartsWith(Strip(req[p].url), HttpPrefix)
                   \/ StartsWith(Strip(req[p].url), HttpsPrefix)
                  THEN Strip(req[p].url)
                  ELSE HttpsPrefix \o Strip(req[p].url)
  /\ \A i \in 1..Len(urls) :
       \/ StartsWith(urls[i].long_url, HttpPrefix)
       \/ StartsWith(urls[i].long_url, HttpsPrefix)

\* both routes have stored urls: one submitted with a scheme and blanks
\* around it, one submitted without a scheme
C9_Witness ==
  \E p, q \in Procs :
    /\ pc[p] = "done" /\ resp[p].tag = "created" /\ req[p].route = "shorten"
    /\ pc[q] = "done" /\ resp[q].tag = "created" /\ req[q].route = "api_shorten"
    /\ HasScheme(Strip(req[p].url)) /\ req[p].url # Strip(req[p].url)
    /\ ~ HasScheme(Strip(req[q].url))

(***************************************************************************)
(* C10 (as claimed): a random allocation whose checked candidate is        *)
(* rejected by the table as a duplicate does not end with that rejection:  *)
(* it ends with a row created.                                             *)
(***************************************************************************)
C10_DuplicateRetried ==
  \A p \in Procs :
    (RandomAllocationDone(p) /\ ~ loc[p].unchecked)
      => resp[p].tag = "created"

(***************************************************************************)
(* C11: an allocation answers success only in the step that commits one    *)
(* new row holding the returned short_code, the long_url handed to         *)
(* create_short_url and click_count 0; every other way an allocation ends, *)
(* a failing statement of the write path included, answers a visible error *)
(* and leaves the table as it was.                                         *)
(***************************************************************************)
C11_SuccessMeansStored ==
  [][\A p \in Procs :
       (Completes(p) /\ req'[p].route \in CreateRoutes) =>
         IF resp'[p].tag = "created"
           THEN /\ Len(urls') = Len(urls) + 1
                /\ SubSeq(urls', 1, Len(urls)) = urls
                /\ urls'[Len(urls')].short_code = resp'[p].code
                /\ urls'[Len(urls')].long_url = loc[p].long_url
                /\ resp'[p].url = loc[p].long_url
                /\ urls'[Len(urls')].click_count = 0
           ELSE /\ urls' = urls
                /\ resp'[p].tag \in ErrorTags
                /\ resp'[p].status \in { 200, 302, 400, 500 }
                /\ resp'[p].tag = "StoreError" => resp'[p].status = 500]_vars

\* the INSERT of an allocation failed after its code was chosen: the caller
\* got the 500 and the table holds no row of that code
C11_Witness ==
  \E p \in Procs :
    /\ pc[p] = "done"
    /\ req[p].route \in CreateRoutes
    /\ resp[p].tag = "StoreError"
    /\ loc[p].short_code # << >>
    /\ ~ CodeExists(urls, loc[p].short_code)
    /\ \E q \in Procs : resp[q].tag = "created"

(***************************************************************************)
(* C12: a POST /shorten or POST /api/shorten whose url is missing, empty   *)
(* or whitespace-only is answered at once with 'URL is required' (a        *)
(* redirect to / for the form, status 400 for the API); the handler        *)
(* returns before any statement reaches the database and the table is      *)
(* unchanged.                                                              *)
(***************************************************************************)
C12_MissingUrlRejected ==
  [][\A p \in Procs :
       (Receives(p) /\ req'[p].route \in CreateRoutes /\ Blank(req'[p].url)) =>
         /\ pc'[p] = "done"
         /\ resp'[p].tag = "URL is required"
         /\ resp'[p].status = IF req'[p].route = "shorten" THEN 302 ELSE 400
         /\ urls' = urls]_vars

\* the form was posted without url and the API with a blank url: both were
\* refused and the table is still the initial one
C12_Witness ==
  \E p, q \in Procs :
    /\ pc[p] = "done" /\ pc[q] = "done"
    /\ req[p].route = "shorten" /\ req[p].url = << >>
    /\ resp[p].status = 302 /\ resp[p].tag = "URL is required"
    /\ req[q].route = "api_shorten" /\ req[q].url = << " " >>
    /\ resp[q].status = 400 /\ resp[q].tag = "URL is required"
    /\ Len(urls) = 1 /\ urls[1].click_count = 0

(***************************************************************************)
(* C13: the listing a caller at address A gets on GET / or in the urls     *)
(* field of GET /api/stats holds only Links whose created_by_ip is A, and  *)
(* it is a listing the query gives on the table cut down to the Links of   *)
(* A: Links of other addresses neither show nor change it. The same holds  *)
(* for the caller's own count; only the total counts every Link.           *)
(***************************************************************************)
C13_ListingOwnLinksOnly ==
  [][\A p \in Procs :
       /\ ListsNow(p) =>
            /\ \A k \in 1..Len(loc'[p].stats) :
                 \E i \in 1..Len(urls) :
                   /\ urls[i].short_code = loc'[p].stats[k].short_code
                   /\ urls[i].created_by_ip = req[p].ip
            /\ loc'[p].stats \in IpListings(OwnRows(urls, req[p].ip), req[p].ip)
       /\ (pc[p] = "count" /\ pc'[p] = "total") =>
            loc'[p].your_urls = Len(OwnRows(urls, req[p].ip))
       /\ (pc[p] = "total" /\ pc'[p] # "total" /\ resp'[p].tag \notin { "StoreError", "degraded" }) =>
            loc'[p].total_urls = Len(urls)]_vars

\* both addresses have Links in the table; GET / from one address and
\* GET /api/stats from the other each list their own Links only, while both
\* totals count all of them
C13_Witness ==
  \E p, q \in Procs :
    /\ pc[p] = "done" /\ pc[q] = "done"
    /\ req[p].route = "home" /\ resp[p].tag = "home"
    /\ req[q].route = "api_stats" /\ resp[q].tag = "stats"
    /\ req[p].ip # req[q].ip
    /\ Len(loc[p].stats) > 0 /\ Len(loc[q].stats) > 0
    /\ Len(loc[p].stats) + Len(loc[q].stats) = Len(urls)
    /\ loc[p].total_urls = Len(urls) /\ loc[q].total_urls = Len(urls)

\* the declared alphabet: lowercase letters and digits
DeclaredAlphabet ==
  { ascii_lowercase[i] : i \in 1..Len(ascii_lowercase) } \cup { digits[i] : i \in 1..Len(digits) }

(***************************************************************************)
(* C14: every short_code in the table is lowercase, 2 to 20 characters     *)
(* long and made of characters of the declared alphabet only.              *)
(***************************************************************************)
C14_StoredCodesWellFormed ==
  \A i \in 1..Len(urls) :
    /\ urls[i].short_code = Lower(urls[i].short_code)
    /\ Len(urls[i].short_code) >= 2
    /\ Len(urls[i].short_code) <= 20
    /\ \A k \in 1..Len(urls[i].short_code) : urls[i].short_code[k] \in DeclaredAlphabet

(***************************************************************************)
(* C15: on every reachable table, resolving a code c and resolving the     *)
(* lowercase form of c give the same answer (the same destination or       *)
(* NotFound) and leave the same table.                                     *)
(***************************************************************************)
C15_ResolveAsLowercase ==
  \A c \in Paths :
    ResolveOutcome(urls, c, now) = ResolveOutcome(urls, Lower(c), now)

(***************************************************************************)
(* C16: the last_clicked of a Link is never older than the timestamp of a  *)
(* completed resolution of that Link: once a set of resolutions has        *)
(* completed it is the latest of their timestamps, and it never moves      *)
(* backwards.                                                              *)
(***************************************************************************)
C16_LastClickedIsLatest ==
  \A p \in Procs :
    (pc[p] = "done" /\ req[p].route = "redirect_url" /\ resp[p].status = 302) =>
      \A i \in RowsOf(urls, Lower(req[p].code)) :
        urls[i].last_clicked >= loc[p].ts

(***************************************************************************)
(* C17: every row added to the table has click_count 0 and last_clicked    *)
(* unset, and after every step the last_clicked of a row is unset exactly  *)
(* when its click_count is 0.                                              *)
(***************************************************************************)
C17_UnsetIffUnclicked ==
  [][/\ \A i \in (Len(urls) + 1)..Len(urls') :
          urls'[i].click_count = 0 /\ urls'[i].last_clicked = NULL
     /\ \A i \in 1..Len(urls') :
          (urls'[i].last_clicked = NULL) <=> (urls'[i].click_count = 0)]_vars

\* an allocation added a Link nobody resolved yet, next to a Link that was
\* resolved
C17_Witness ==
  \E p \in Procs, i, j \in 1..Len(urls) :
    /\ pc[p] = "done" /\ resp[p].tag = "created"
    /\ urls[i].short_code = resp[p].code
    /\ urls[i].click_count = 0 /\ urls[i].last_clicked = NULL
    /\ urls[j].click_count = 1 /\ urls[j].last_clicked # NULL

(***************************************************************************)
(* C18: when a query of the listing read path fails (the listing, the      *)
(* caller's count or the total, on GET / or GET /api/stats) the request    *)
(* is answered normally with an empty listing and zero counts, never with  *)
(* an error response.                                                      *)
(***************************************************************************)
C18_ListingFailureSwallowed ==
  [][\A p \in Procs :
       (/\ pc[p] \in { "stats", "count", "total" }
        /\ pc'[p] = "done"
        /\ resp'[p].tag \in { "StoreError", "degraded" }) =>
         /\ resp'[p].status = 200
         /\ loc'[p].stats = << >>
         /\ loc'[p].your_urls = 0
         /\ loc'[p].total_urls = 0]_vars

C20_ListingNewestHundred ==
  [][\A p \in Procs :
       ListsNow(p) =>
         LET L   == loc'[p].stats
             own == OwnRows(urls, req[p].ip)
         IN
         /\ Len(L) = IF Len(own) < 100 THEN Len(own) ELSE 100
         /\ \A k \in 1..(Len(L) - 1) : L[k].created_at >= L[k + 1].created_at
         /\ \A k \in 1..Len(L) :
              /\ \E i \in 1..Len(own) : ListedRow(own[i]) = L[k]
              /\ \A m \in (k + 1)..Len(L) : L[m].short_code # L[k].short_code
         /\ \A i \in 1..Len(own) :
              (\A k \in 1..Len(L) : L[k].short_code # own[i].short_code) =>
                \A k \in 1..Len(L) : own[i].created_at <= L[k].created_at]_vars

\* a caller with more than 100 Links was given 100 of them, and the oldest
\* Link of the table is not among them
C20_Witness ==
  \E p \in Procs :
    /\ pc[p] = "done" /\ resp[p].tag \in { "stats", "home" }
    /\ Len(OwnRows(urls, req[p].ip)) > 100
    /\ Len(loc[p].stats) = 100
    /\ loc[p].your_urls > 100
    /\ \A k \in 1..100 : loc[p].stats[k].created_at > 1

(***************************************************************************)
(* C21 as stated: GET /health answers 200 with the body {status: "ok"}     *)
(* and nothing else, and leaves the table as it was.                       *)
(***************************************************************************)
C21_HealthBodyStatusOnly ==
  [][\A p \in Procs :
       (Receives(p) /\ req'[p].route = "health") =>
         /\ pc'[p] = "done"
         /\ resp'[p].status = 200
         /\ DOMAIN resp'[p].body = { "status" }
         /\ resp'[p].body.status = "ok"
         /\ urls' = urls]_vars

(***************************************************************************)
(* C21: GET /health is answered at once with 200 and a body whose status   *)
(* is "ok" and whose your_ip is the caller's address, whatever the table   *)
(* holds and whatever happens to the database; the step changes no row,    *)
(* also when a Link with the code 'health' is stored.                      *)
(***************************************************************************)
C21_HealthAlwaysOk ==
  [][\A p \in Procs :
       (Receives(p) /\ req'[p].route = "health") =>
         /\ pc'[p] = "done"
         /\ resp'[p].status = 200
         /\ DOMAIN resp'[p].body = { "status", "your_ip" }
         /\ resp'[p].body.status = "ok"
         /\ resp'[p].body.your_ip = req'[p].ip
         /\ urls' = urls
         /\ served' = served]_vars

\* the probe was answered while the table holds a Link 'health' nobody
\* resolved and another request met a failing database
C21_Witness ==
  \E p, q \in Procs :
    /\ pc[p] = "done" /\ req[p].route = "health" /\ resp[p].status = 200
    /\ pc[q] = "done" /\ resp[q].tag = "StoreError" /\ p > q
    /\ \E i \in 1..Len(urls) :
         /\ urls[i].short_code = << "h","e","a","l","t","h" >>
         /\ urls[i].click_count = 0

\* the routes the admin-gated policy protects: creation and listing
GatedRoutes == { "shorten", "api_shorten", "home", "api_stats" }

(***************************************************************************)
(* C22: with an ADMIN_KEY configured, a creation or listing request that   *)
(* supplies no key (no request of the model supplies one: the handlers     *)
(* read the url and code fields and the 'created' and 'error' parameters   *)
(* only) ends with the unauthorized answer 401, and the step that answers  *)
(* it adds no Link.                                                        *)
(***************************************************************************)
C22_KeylessRequestUnauthorized ==
  [][\A p \in Procs :
       (AdminKeyConfigured /\ Completes(p) /\ req'[p].route \in GatedRoutes) =>
         /\ resp'[p].status = 401
         /\ urls' = urls]_vars

\* slot p's find_available_code returns in this step
SearchReturns(p) == pc[p] = "search" /\ pc'[p] = "insert"

\* slot p's find_available_code stays in its loops in this step
SearchGoesOn(p) == pc[p] = "search" /\ pc'[p] = "search" /\ loc'[p] # loc[p]

\* the lengths find_available_code tries, as the specification gives them
SearchLengths == 2..6

(***************************************************************************)
(* C23: the search starts at length 2; a step that stays in the search has *)
(* found one more candidate of the current length present and keeps or     *)
(* increases the length by one; a checked candidate returned by the search *)
(* has a length L from 2 to 6, is absent from the table, and was returned  *)
(* after exactly 10 candidates of every shorter length and fewer than 10   *)
(* of length L were found present. On an empty table L is 2.               *)
(***************************************************************************)
C23_SearchInLengthOrder ==
  [][\A p \in Procs :
       /\ (Receives(p) /\ pc'[p] = "search") =>
            /\ loc'[p].length = 2
            /\ \A l \in SearchLengths : loc'[p].found[l] = 0
       /\ SearchGoesOn(p) =>
            /\ loc'[p].found[loc[p].length] = loc[p].found[loc[p].length] + 1
            /\ \A l \in SearchLengths \ { loc[p].length } : loc'[p].found[l] = loc[p].found[l]
            /\ loc'[p].length \in { loc[p].length, loc[p].length + 1 }
            /\ \A l \in SearchLengths : loc'[p].found[l] <= 10
            /\ \E i \in 1..Len(urls) : Len(urls[i].short_code) = loc[p].length
       /\ (SearchReturns(p) /\ ~ loc'[p].unchecked) =>
            LET L == Len(loc'[p].short_code) IN
            /\ L \in SearchLengths
            /\ ~ CodeExists(urls, loc'[p].short_code)
            /\ \A l \in SearchLengths : l < L => loc[p].found[l] = 10
            /\ loc[p].found[L] < 10
            /\ \A l \in SearchLengths : l > L => loc[p].found[l] = 0
            /\ urls = << >> => L = 2]_vars

\* one allocation without custom code on the table that holds a code of
\* every length created a Link of length 3, another one of length 2
C23_Witness ==
  \E p, q \in Procs :
    /\ RandomAllocationDone(p) /\ RandomAllocationDone(q)
    /\ resp[p].tag = "created" /\ Len(resp[p].code) = 3
    /\ resp[q].tag = "created" /\ Len(resp[q].code) = 2
    /\ ~ loc[p].unchecked
    /\ Len(urls) = Len(FullTable) + 2

\* how many candidates slot p's search has found present so far
ChecksFoundPresent(l) == l.found[2] + l.found[3] + l.found[4] + l.found[5] + l.found[6]

(***************************************************************************)
(* C24: a search in progress has made fewer than 50 existence checks; each *)
(* of its steps either returns or adds one to the number of checks, so the *)
(* search returns after at most 50 checks, whatever the table holds. A     *)
(* checked candidate is returned by the last of at most 50 checks; an      *)
(* unchecked one, of length 6, only when 50 checks (10 of every length     *)
(* from 2 to 6) each found their candidate present.                        *)
(***************************************************************************)
C24_SearchTerminates ==
  [][\A p \in Procs :
       /\ pc'[p] = "search" => ChecksFoundPresent(loc'[p]) < 50
       /\ SearchGoesOn(p) =>
            ChecksFoundPresent(loc'[p]) = ChecksFoundPresent(loc[p]) + 1
       /\ (pc[p] = "search" /\ loc'[p] # loc[p]) =>
            SearchGoesOn(p) \/ SearchReturns(p)
       /\ (SearchReturns(p) /\ ~ loc'[p].unchecked) =>
            ChecksFoundPresent(loc[p]) + 1 <= 50
       /\ (SearchReturns(p) /\ loc'[p].unchecked) =>
            /\ \A l \in 2..5 : loc[p].found[l] = 10
            /\ loc[p].found[6] = 9
            /\ \E i \in 1..Len(urls) : Len(urls[i].short_code) = 6
            /\ Len(loc'[p].short_code) = 6]_vars

\* a search found 50 candidates present and returned a sixth-length
\* candidate unchecked, which the allocation then stored
C24_Witness ==
  \E p \in Procs :
    /\ RandomAllocationDone(p)
    /\ loc[p].unchecked
    /\ resp[p].tag = "created"
    /\ Len(resp[p].code) = 6

\* slot p holds a finished allocation with a custom code
CustomAllocationDone(p) ==
  /\ pc[p] = "done"
  /\ req[p].route \in CreateRoutes
  /\ loc[p].custom_code # << >>

(***************************************************************************)
(* C25: of the finished allocations with one custom code (equal after      *)
(* lowercasing) at most one reports success, and when one does every other *)
(* one ended with the CodeTaken result, whether they ran one after the     *)
(* other or together.                                                      *)
(***************************************************************************)
C25_CustomRaceLoserCodeTaken ==
  \A p, q \in Procs :
    (/\ p # q
     /\ CustomAllocationDone(p) /\ CustomAllocationDone(q)
     /\ Lower(loc[p].custom_code) = Lower(loc[q].custom_code)
     /\ resp[p].tag = "created") =>
       resp[q].tag = "CodeTaken"

\* the routes that only read
ReadOnlyRoutes == { "home", "api_stats", "health" }

\* slot p takes this step
StepOf(p) == pc'[p] # pc[p] \/ loc'[p] # loc[p]

(***************************************************************************)
(* C26: no step of GET / (its lookup of the 'created' code included), of   *)
(* GET /api/stats or of GET /health changes the table; among the routes    *)
(* that answer GET a step that changes the table is the UPDATE of a        *)
(* resolution, and it changes nothing but the click_count, which it        *)
(* increments, and the last_clicked of rows that stay in place.            *)
(***************************************************************************)
C26_ReadRoutesChangeNothing ==
  [][/\ \A p \in Procs :
          (StepOf(p) /\ req'[p].route \in ReadOnlyRoutes) => urls' = urls
     /\ urls' # urls =>
          /\ \E p \in Procs :
               /\ req[p].route = "redirect_url"
               /\ pc[p] = "update" /\ pc'[p] = "done"
               /\ resp'[p].status = 302
          /\ Len(urls') = Len(urls)
          /\ \A i \in 1..Len(urls) :
               /\ urls'[i].click_count \in { urls[i].click_count, urls[i].click_count + 1 }
               /\ [urls'[i] EXCEPT !.click_count = 0, !.last_clicked = NULL]
                    = [urls[i] EXCEPT !.click_count = 0, !.last_clicked = NULL]]_vars

\* GET / looked up the code named by 'created' and found it, GET /api/stats
\* was answered too, and the table is the initial one
C26_Witness ==
  \E p, q \in Procs :
    /\ pc[p] = "done" /\ req[p].route = "home" /\ resp[p].tag = "home"
    /\ req[p].code = << "a","a" >> /\ loc[p].short_code = << "a","a" >>
    /\ pc[q] = "done" /\ req[q].route = "api_stats" /\ resp[q].tag = "stats"
    /\ urls = MixedTable

(***************************************************************************)
(* C27: in every answer of GET /api/stats your_urls is at most total_urls  *)
(* and the urls field has min(your_urls, 100) entries, also when           *)
(* allocations commit between the three queries of the handler.            *)
(***************************************************************************)
C27_StatsAnswerConsistent ==
  \A p \in Procs :
    (pc[p] = "done" /\ req[p].route = "api_stats" /\ resp[p].tag = "stats") =>
      /\ loc[p].your_urls <= loc[p].total_urls
      /\ Len(loc[p].stats) = IF loc[p].your_urls < 100 THEN loc[p].your_urls ELSE 100

(***************************************************************************)
(* C28: a request that has returned or raised holds no open connection     *)
(* (the CodeTaken return and every failing statement included); a request  *)
(* holds two connections only while find_available_code runs inside        *)
(* create_short_url, never more, and one at most on every other route.     *)
(***************************************************************************)
C28_ConnectionsClosed ==
  \A p \in Procs :
    /\ loc[p].conns \in 0..2
    /\ pc[p] \in { "idle", "done" } => loc[p].conns = 0
    /\ pc[p] \notin { "idle", "done" } => loc[p].conns >= 1
    /\ loc[p].conns = 2 => (pc[p] = "search" /\ req[p].route \in CreateRoutes)

\* a query of the code search failed while the allocation held two
\* connections: the request was answered 500 and holds none
C28_Witness ==
  /\ pc[1] = "done"
  /\ req[1].route \in CreateRoutes
  /\ resp[1].tag = "StoreError"
  /\ loc[1].length = 3
  /\ loc[1].short_code = << >>
  /\ loc[1].conns = 0

\* the commands of deploy_service and delete_old_versions
DeployCommands == { "versions list", "app deploy", "versions delete" }

(***************************************************************************)
(* C29: the script has listed versions, deployed or deleted a version only *)
(* if the project it last read was the expected one; once the project      *)
(* check is over with another project read last, or with no project read,  *)
(* the script has exited with status 1 and has run none of these commands. *)
(***************************************************************************)
C29_DeployOnlyInExpectedProject ==
  /\ script.ran \cap DeployCommands # {} =>
       script.current_project = EXPECTED_PROJECT_ID
  /\ (script.pc \notin { "off", "check", "switch", "verify" }
        /\ script.current_project # EXPECTED_PROJECT_ID) =>
       /\ script.pc = "exit"
       /\ script.status = 1
       /\ script.ran = {}

\* the switch left another project active: the second read saw it and the
\* script exited with 1 before any command of the deployment
C29_Witness ==
  /\ script.pc = "exit"
  /\ script.status = 1
  /\ script.current_project = KUMORI_PROJECT
  /\ gcloud.project = KUMORI_PROJECT
  /\ script.ran = {}

(***************************************************************************)
(* C30: a run of the script that started with at most VERSION_MAX versions,*)
(* deployed, and met no failure in its cleanup leaves at most VERSION_MAX  *)
(* versions; every version it deleted is older than every version that     *)
(* remains, the version it deployed is not among the deleted ones, and a   *)
(* run that did not deploy deleted nothing.                                *)
(***************************************************************************)
C30_VersionRetention ==
  /\ script.before <= VERSION_MAX =>
       /\ (script.pc = "exit" /\ script.deployed /\ ~script.cleanup_failed) =>
            Cardinality(gcloud.versions) <= VERSION_MAX
       /\ \A d \in script.deleted : \A v \in gcloud.versions : d < v
       /\ script.version_name \notin script.deleted
  /\ ~script.deployed => script.deleted = {}

====
